---- MODULE Spec2Model ----
(***************************************************************************)
(* Model of package math3d (src/math3d/vector.go): the Vector3 value type, *)
(* its operations and the package-level unit vectors.                      *)
(*                                                                         *)
(* float64 is modelled as a record: a finite value [c |-> "num", n |-> i]  *)
(* stands for the real number i / Scale (fixed point, one unit = 0.000005),*)
(* and the IEEE-754 specials are [c |-> "inf", n |-> +1 / -1] and          *)
(* [c |-> "nan"].  Arithmetic follows IEEE-754: results are rounded        *)
(* symmetrically (toward zero, at the resolution of one unit), infinities  *)
(* and NaN propagate, NaN compares unequal to everything.  Signed zeros    *)
(* are not distinguished (they compare equal in Go).                       *)
(***************************************************************************)
EXTENDS Integers, Sequences, FiniteSets, TLC

\* ---------------------------------------------------------------- float64
\* Number of model units in 1.0 (one unit = 0.000005).
Scale == 2 * 100000

F(i) == [c |-> "num", n |-> i]
PInf == [c |-> "inf", n |-> 1]
NInf == [c |-> "inf", n |-> -1]
NaN  == [c |-> "nan", n |-> 0]
Whole(w) == F(w * Scale)

IsNaN(x) == x.c = "nan"
IsInf(x) == x.c = "inf"
IsNum(x) == x.c = "num"

IAbs(i) == IF i < 0 THEN -i ELSE i
ISgn(i) == IF i < 0 THEN -1 ELSE IF i > 0 THEN 1 ELSE 0
Inf(s) == IF s < 0 THEN NInf ELSE PInf

\* floor(p * q / Scale) for 0 <= p, q < Scale, without leaving 32 bits
LowMul(p, q) ==
    LET p1 == p \div 1000
        p0 == p % 1000
        t  == p1 * q
        d  == Scale \div 1000
    IN  (t \div d) + (((t % d) * 1000 + p0 * q) \div Scale)

\* floor(x * y / Scale) for x, y >= 0
MulFix(x, y) ==
    LET xh == x \div Scale
        xl == x % Scale
        yh == y \div Scale
        yl == y % Scale
    IN  xh * y + xl * yh + LowMul(xl, yl)

\* x + y
FAdd(x, y) ==
    IF IsNaN(x) \/ IsNaN(y) THEN NaN
    ELSE IF IsInf(x) /\ IsInf(y) THEN (IF x.n = y.n THEN x ELSE NaN)
    ELSE IF IsInf(x) THEN x
    ELSE IF IsInf(y) THEN y
    ELSE F(x.n + y.n)

\* -x
FNeg(x) == IF IsNaN(x) THEN NaN ELSE [c |-> x.c, n |-> -x.n]

\* x - y
FSub(x, y) == FAdd(x, FNeg(y))

\* x * y
FMul(x, y) ==
    IF IsNaN(x) \/ IsNaN(y) THEN NaN
    ELSE IF IsInf(x) \/ IsInf(y)
         THEN (IF x.n = 0 \/ y.n = 0 THEN NaN ELSE Inf(ISgn(x.n) * ISgn(y.n)))
    ELSE F(ISgn(x.n) * ISgn(y.n) * MulFix(IAbs(x.n), IAbs(y.n)))

\* floor(x * Scale / y) for x >= 0, y > 0; the fraction is kept to 1/1000
DivFix(x, y) ==
    (x \div y) * Scale + (((x % y) * 1000) \div y) * (Scale \div 1000)

\* x / y
FDiv(x, y) ==
    IF IsNaN(x) \/ IsNaN(y) THEN NaN
    ELSE IF IsInf(x) THEN (IF IsInf(y) THEN NaN
                           ELSE Inf(x.n * (IF y.n < 0 THEN -1 ELSE 1)))
    ELSE IF IsInf(y) THEN F(0)
    ELSE IF y.n = 0 THEN (IF x.n = 0 THEN NaN ELSE Inf(x.n))
    ELSE F(ISgn(x.n) * ISgn(y.n) * DivFix(IAbs(x.n), IAbs(y.n)))

\* floor(sqrt(i)) for i >= 0
RECURSIVE ISqrt(_)
ISqrt(i) ==
    IF i < 4 THEN (IF i = 0 THEN 0 ELSE 1)
    ELSE LET r == 2 * ISqrt(i \div 4)
         IN  IF (r + 1) * (r + 1) <= i THEN r + 1 ELSE r

\* math.Sqrt(x); a finite root is kept to 1/100
FSqrt(x) ==
    IF IsNaN(x) THEN NaN
    ELSE IF IsInf(x) THEN (IF x.n > 0 THEN PInf ELSE NaN)
    ELSE IF x.n < 0 THEN NaN
    ELSE F(ISqrt(x.n \div (Scale \div 10000)) * (Scale \div 100))

\* math.Abs(x)
FAbs(x) == IF IsNaN(x) THEN NaN ELSE [c |-> x.c, n |-> IAbs(x.n)]

\* x < y
FLt(x, y) ==
    IF IsNaN(x) \/ IsNaN(y) THEN FALSE
    ELSE IF IsInf(x) THEN x.n < 0 /\ ~(IsInf(y) /\ y.n < 0)
    ELSE IF IsInf(y) THEN y.n > 0
    ELSE x.n < y.n

\* x == y
FEq(x, y) == ~IsNaN(x) /\ ~IsNaN(y) /\ x = y

\* x <= y
FLe(x, y) == FLt(x, y) \/ FEq(x, y)

\* const threshold float64 = 0.00001
threshold == F(Scale \div 100000)

\* ---------------------------------------------------------------- Vector3
Vec(x, y, z) == [X |-> x, Y |-> y, Z |-> z]

\* The heap holds the Vector3 objects; a *Vector3 is an index into it.  The
\* package variables UnitX, UnitY, UnitZ live in cells 1..3, the caller's two
\* vectors a and b in cells 4 and 5; results are allocated after them.
AddrUnitX == 1
AddrUnitY == 2
AddrUnitZ == 3
AddrA == 4
AddrB == 5
NRoots == 5
Roots == 1..NRoots
Units == {AddrUnitX, AddrUnitY, AddrUnitZ}

UnitX == Vec(Whole(1), Whole(0), Whole(0))
UnitY == Vec(Whole(0), Whole(1), Whole(0))
UnitZ == Vec(Whole(0), Whole(0), Whole(1))

\* &Vector3{...}: a new object, distinct from every existing one
Alloc(h, val) == [h |-> Append(h, val), p |-> Len(h) + 1]

\* Abs with the square of Z forgotten
AbsLinearZ(h, v) ==
    FSqrt(FAdd(FAdd(FMul(h[v].X, h[v].X), FMul(h[v].Y, h[v].Y)), h[v].Z))

Abs(h, v) ==
    FSqrt(FAdd(FAdd(FMul(h[v].X, h[v].X), FMul(h[v].Y, h[v].Y)),
               FMul(h[v].Z, h[v].Z)))

Divide(h, v, k) ==
    Alloc(h, Vec(FDiv(h[v].X, k), FDiv(h[v].Y, k), FDiv(h[v].Z, k)))

Normalized(h, v) == Divide(h, v, Abs(h, v))

Multiply(h, v, k) ==
    Alloc(h, Vec(FMul(h[v].X, k), FMul(h[v].Y, k), FMul(h[v].Z, k)))

\* Add that accumulates into its receiver and returns it
AddInPlace(h, v, v2) ==
    [h |-> [h EXCEPT ![v] = Vec(FAdd(h[v].X, h[v2].X), FAdd(h[v].Y, h[v2].Y),
                                FAdd(h[v].Z, h[v2].Z))],
     p |-> v]

Add(h, v, v2) ==
    Alloc(h, Vec(FAdd(h[v].X, h[v2].X), FAdd(h[v].Y, h[v2].Y),
                 FAdd(h[v].Z, h[v2].Z)))

\* the method (*Vector3).Subtract
SubtractMethod(h, v, v2) ==
    Alloc(h, Vec(FSub(h[v].X, h[v2].X), FSub(h[v].Y, h[v2].Y),
                 FSub(h[v].Z, h[v2].Z)))

Dot(h, v, v2) ==
    FAdd(FAdd(FMul(h[v].X, h[v2].X), FMul(h[v].Y, h[v2].Y)),
         FMul(h[v].Z, h[v2].Z))

\* Cross with a sum for the difference in the first component
CrossPlus(h, v, v2) ==
    Alloc(h, Vec(FAdd(FMul(h[v].Y, h[v2].Z), FMul(h[v].Z, h[v2].Y)),
                 FSub(FMul(h[v].Z, h[v2].X), FMul(h[v].X, h[v2].Z)),
                 FSub(FMul(h[v].X, h[v2].Y), FMul(h[v].Y, h[v2].X))))

Cross(h, v, v2) ==
    Alloc(h, Vec(FSub(FMul(h[v].Y, h[v2].Z), FMul(h[v].Z, h[v2].Y)),
                 FSub(FMul(h[v].Z, h[v2].X), FMul(h[v].X, h[v2].Z)),
                 FSub(FMul(h[v].X, h[v2].Y), FMul(h[v].Y, h[v2].X))))

\* Subtract as its comment words it: the vector from pointA to pointB
SubtractReversed(h, pointA, pointB) ==
    Alloc(h, [X |-> FSub(h[pointB].X, h[pointA].X),
              Y |-> FSub(h[pointB].Y, h[pointA].Y),
              Z |-> FSub(h[pointB].Z, h[pointA].Z)])

\* the package-level function Subtract
Subtract(h, pointA, pointB) ==
    Alloc(h, [X |-> FSub(h[pointA].X, h[pointB].X),
              Y |-> FSub(h[pointA].Y, h[pointB].Y),
              Z |-> FSub(h[pointA].Z, h[pointB].Z)])

\* Distance allocates the difference and takes its Abs
Distance(h, pointA, pointB) ==
    LET s == Subtract(h, pointA, pointB)
    IN  [h |-> s.h, f |-> Abs(s.h, s.p)]

\* the conventional reflection v - 2*Dot(v, normal)*normal
ReflectConventional(h, v, normal) ==
    LET s == Multiply(h, normal, FMul(Dot(h, v, normal), F(2 * Scale)))
    IN  SubtractMethod(s.h, v, s.p)

Reflect(h, v, normal) ==
    LET s == SubtractMethod(h, v, normal)
    IN  Multiply(s.h, s.p, FMul(Dot(s.h, v, normal), F(2 * Scale)))

\* Equal with <= for <
EqualInclusive(h, v, v2) ==
    /\ FLe(FAbs(FSub(h[v].X, h[v2].X)), threshold)
    /\ FLe(FAbs(FSub(h[v].Y, h[v2].Y)), threshold)
    /\ FLe(FAbs(FSub(h[v].Z, h[v2].Z)), threshold)

Equal(h, v, v2) ==
    /\ FLt(FAbs(FSub(h[v].X, h[v2].X)), threshold)
    /\ FLt(FAbs(FSub(h[v].Y, h[v2].Y)), threshold)
    /\ FLt(FAbs(FSub(h[v].Z, h[v2].Z)), threshold)

\* Differ written out as its own comparison, beyond the threshold on an axis
DifferBeyond(h, v, v2) ==
    \/ FLt(threshold, FAbs(FSub(h[v].X, h[v2].X)))
    \/ FLt(threshold, FAbs(FSub(h[v].Y, h[v2].Y)))
    \/ FLt(threshold, FAbs(FSub(h[v].Z, h[v2].Z)))

Differ(h, v, v2) == ~Equal(h, v, v2)

LesserOrEqual(h, v, v2) ==
    /\ FLe(FSub(h[v].X, h[v2].X), threshold)
    /\ FLe(FSub(h[v].Y, h[v2].Y), threshold)
    /\ FLe(FSub(h[v].Z, h[v2].Z), threshold)

GreaterOrEqual(h, v, v2) ==
    /\ FLe(FSub(h[v2].X, h[v].X), threshold)
    /\ FLe(FSub(h[v2].Y, h[v].Y), threshold)
    /\ FLe(FSub(h[v2].Z, h[v].Z), threshold)

\* "%.3f": the value rounded to thousandths (the nearest, ties away from
\* zero at this resolution), or the text of a special value
Fmt3(x) ==
    IF IsNaN(x) THEN <<"NaN">>
    ELSE IF IsInf(x) THEN (IF x.n > 0 THEN <<"+Inf">> ELSE <<"-Inf">>)
    ELSE <<ISgn(x.n) * ((IAbs(x.n) + (Scale \div 2000)) \div (Scale \div 1000))>>

String(h, v) == <<"[">> \o Fmt3(h[v].X) \o <<", ">> \o Fmt3(h[v].Y)
                \o <<", ">> \o Fmt3(h[v].Z) \o <<"]">>

\* ------------------------------------------------------------------- maps
Keys == {"x", "y", "z"}

\* map[string]float64{"x": v.X, "y": v.Y, "z": v.Z}
AsMap(h, v) == [key \in Keys |->
                  IF key = "x" THEN h[v].X ELSE IF key = "y" THEN h[v].Y
                  ELSE h[v].Z]

\* interface{} values: a dynamic type tag and the value
Nil == [t |-> "nil", v |-> F(0)]
Float64(x) == [t |-> "float64", v |-> x]
IntVal == [t |-> "int", v |-> F(Scale)]
StringVal == [t |-> "string", v |-> F(0)]

\* the conversion of a map[string]float64 to the map[string]interface{} that
\* VectorFromMap takes: every value is boxed as a float64
Box(m) == [key \in DOMAIN m |-> Float64(m[key])]

\* m[key] of a map[string]float64: 0.0 for a missing key
IndexZero(m, key) == IF key \in DOMAIN m THEN m[key] ELSE Float64(F(0))

\* m[key]: the nil interface for a missing key
Index(m, key) == IF key \in DOMAIN m THEN m[key] ELSE Nil

\* i.(float64) panics unless the dynamic type is float64
Asserts(i) == i.t = "float64"

\* VectorFromMap with the keys of X and Y exchanged
VectorFromMapSwapped(m) ==
    IF Asserts(Index(m, "x")) /\ Asserts(Index(m, "y")) /\ Asserts(Index(m, "z"))
    THEN [kind |-> "vec",
          vec |-> Vec(Index(m, "y").v, Index(m, "x").v, Index(m, "z").v)]
    ELSE [kind |-> "panic"]

\* A panic is not recovered anywhere in the package: the call never returns.
VectorFromMap(m) ==
    IF Asserts(Index(m, "x")) /\ Asserts(Index(m, "y")) /\ Asserts(Index(m, "z"))
    THEN [kind |-> "vec",
          vec |-> Vec(Index(m, "x").v, Index(m, "y").v, Index(m, "z").v)]
    ELSE [kind |-> "panic"]

\* ----------------------------------------------------------------- inputs
MaxWhole == 1
MaxTiny == 2

\* components of a: whole numbers from -1.0 up, and NaN
AVals == {Whole(w) : w \in -1..MaxWhole} \cup {NaN}
\* the coordinate of b on its axis: 0, a few units (of 0.000005), or +Inf
BVals == {F(t) : t \in 0..MaxTiny} \cup {PInf}
\* scalar arguments of Divide and Multiply
KVals == {F(0), F(Scale \div 2), Whole(-1), Whole(2)}

Vecs(S) == {Vec(x, y, z) : x \in S, y \in S, z \in S}
\* the points on the three axes with a coordinate in S
OnAxis(S) == UNION {{Vec(t, F(0), F(0)), Vec(F(0), t, F(0)), Vec(F(0), F(0), t)} : t \in S}

\* the maps a caller hands to VectorFromMap: the boxed AsMap of a vector,
\* with the keys in bad deleted or holding a value that is not a float64
Corrupt(m, bad, how) ==
    IF how = "delete" THEN [key \in (DOMAIN m) \ bad |-> m[key]]
    ELSE [key \in DOMAIN m |->
            IF key \notin bad THEN m[key]
            ELSE IF how = "nil" THEN Nil
            ELSE IF how = "int" THEN IntVal ELSE StringVal]

Hows == {"delete", "nil", "int", "string"}

\* ------------------------------------------------------------------ state
VARIABLES heap, call, ret
vars == <<heap, call, ret>>

NoMap == [key \in {} |-> Nil]
Called(op, recv, arg, k, m) ==
    [op |-> op, recv |-> recv, arg |-> arg, k |-> k, m |-> m]

\* the objects a caller still holds when it makes the next call: earlier
\* results are garbage
Live == SubSeq(heap, 1, NRoots)

Init ==
    /\ \E a \in Vecs(AVals), b \in OnAxis(BVals) :
          heap = <<UnitX, UnitY, UnitZ, a, b>>
    /\ call = Called("none", 0, 0, F(0), NoMap)
    /\ ret = [kind |-> "none"]

\* no call is outstanding: the caller holds only the live objects
Idle == ret.kind = "none"

RetPtr(r) == [kind |-> "ptr", p |-> r.p]
RetFloat(f) == [kind |-> "float", f |-> f]
RetBool(b) == [kind |-> "bool", b |-> b]

CallAbs ==
    /\ Idle
    /\ \E v \in Roots :
        /\ heap' = Live
        /\ ret' = RetFloat(Abs(Live, v))
        /\ call' = Called("Abs", v, 0, F(0), NoMap)

CallNormalized ==
    /\ Idle
    /\ \E v \in Roots :
        LET r == Normalized(Live, v)
        IN  /\ heap' = r.h
            /\ ret' = RetPtr(r)
            /\ call' = Called("Normalized", v, 0, F(0), NoMap)

CallDivide ==
    /\ Idle
    /\ \E v \in Roots, k \in KVals :
        LET r == Divide(Live, v, k)
        IN  /\ heap' = r.h
            /\ ret' = RetPtr(r)
            /\ call' = Called("Divide", v, 0, k, NoMap)

CallMultiply ==
    /\ Idle
    /\ \E v \in Roots, k \in KVals :
        LET r == Multiply(Live, v, k)
        IN  /\ heap' = r.h
            /\ ret' = RetPtr(r)
            /\ call' = Called("Multiply", v, 0, k, NoMap)

CallAdd ==
    /\ Idle
    /\ \E v \in Roots, v2 \in Roots :
        LET r == Add(Live, v, v2)
        IN  /\ heap' = r.h
            /\ ret' = RetPtr(r)
            /\ call' = Called("Add", v, v2, F(0), NoMap)

CallSubtractMethod ==
    /\ Idle
    /\ \E v \in Roots, v2 \in Roots :
        LET r == SubtractMethod(Live, v, v2)
        IN  /\ heap' = r.h
            /\ ret' = RetPtr(r)
            /\ call' = Called("SubtractMethod", v, v2, F(0), NoMap)

CallDot ==
    /\ Idle
    /\ \E v \in Roots, v2 \in Roots :
        /\ heap' = Live
        /\ ret' = RetFloat(Dot(Live, v, v2))
        /\ call' = Called("Dot", v, v2, F(0), NoMap)

CallCross ==
    /\ Idle
    /\ \E v \in Roots, v2 \in Roots :
        LET r == Cross(Live, v, v2)
        IN  /\ heap' = r.h
            /\ ret' = RetPtr(r)
            /\ call' = Called("Cross", v, v2, F(0), NoMap)

CallSubtract ==
    /\ Idle
    /\ \E pointA \in Roots, pointB \in Roots :
        LET r == Subtract(Live, pointA, pointB)
        IN  /\ heap' = r.h
            /\ ret' = RetPtr(r)
            /\ call' = Called("Subtract", pointA, pointB, F(0), NoMap)

CallDistance ==
    /\ Idle
    /\ \E pointA \in Roots, pointB \in Roots :
        LET r == Distance(Live, pointA, pointB)
        IN  /\ heap' = r.h
            /\ ret' = RetFloat(r.f)
            /\ call' = Called("Distance", pointA, pointB, F(0), NoMap)

CallReflect ==
    /\ Idle
    /\ \E v \in Roots, normal \in Roots :
        LET r == Reflect(Live, v, normal)
        IN  /\ heap' = r.h
            /\ ret' = RetPtr(r)
            /\ call' = Called("Reflect", v, normal, F(0), NoMap)

CallEqual ==
    /\ Idle
    /\ \E v \in Roots, v2 \in Roots :
        /\ heap' = Live
        /\ ret' = RetBool(Equal(Live, v, v2))
        /\ call' = Called("Equal", v, v2, F(0), NoMap)

CallDiffer ==
    /\ Idle
    /\ \E v \in Roots, v2 \in Roots :
        /\ heap' = Live
        /\ ret' = RetBool(Differ(Live, v, v2))
        /\ call' = Called("Differ", v, v2, F(0), NoMap)

CallLesserOrEqual ==
    /\ Idle
    /\ \E v \in Roots, v2 \in Roots :
        /\ heap' = Live
        /\ ret' = RetBool(LesserOrEqual(Live, v, v2))
        /\ call' = Called("LesserOrEqual", v, v2, F(0), NoMap)

CallGreaterOrEqual ==
    /\ Idle
    /\ \E v \in Roots, v2 \in Roots :
        /\ heap' = Live
        /\ ret' = RetBool(GreaterOrEqual(Live, v, v2))
        /\ call' = Called("GreaterOrEqual", v, v2, F(0), NoMap)

CallString ==
    /\ Idle
    /\ \E v \in Roots :
        /\ heap' = Live
        /\ ret' = [kind |-> "string", s |-> String(Live, v)]
        /\ call' = Called("String", v, 0, F(0), NoMap)

CallAsMap ==
    /\ Idle
    /\ \E v \in Roots :
        /\ heap' = Live
        /\ ret' = [kind |-> "map", m |-> AsMap(Live, v)]
        /\ call' = Called("AsMap", v, 0, F(0), NoMap)

\* VectorFromMap on the (possibly damaged) boxed AsMap of one of the caller's
\* vectors
CallVectorFromMap ==
    /\ Idle
    /\ \E v \in {AddrA, AddrB}, bad \in SUBSET Keys, how \in Hows :
        LET m == Corrupt(Box(AsMap(Live, v)), bad, how)
        IN  /\ heap' = Live
            /\ ret' = VectorFromMap(m)
            /\ call' = Called("VectorFromMap", v, 0, F(0), m)

\* the caller is done with the result of the last call and drops it
Discard ==
    /\ ~Idle
    /\ heap' = Live
    /\ call' = Called("none", 0, 0, F(0), NoMap)
    /\ ret' = [kind |-> "none"]

Next ==
    \/ CallAbs
    \/ CallNormalized
    \/ CallDivide
    \/ CallMultiply
    \/ CallAdd
    \/ CallSubtractMethod
    \/ CallDot
    \/ CallCross
    \/ CallSubtract
    \/ CallDistance
    \/ CallReflect
    \/ CallEqual
    \/ CallDiffer
    \/ CallLesserOrEqual
    \/ CallGreaterOrEqual
    \/ CallString
    \/ CallAsMap
    \/ CallVectorFromMap
    \/ Discard

Spec == Init /\ [][Next]_vars

\* ----------------------------------------------------------------- claims
RecvV == heap[call.recv]
ArgV == heap[call.arg]
Res == heap[ret.p]
Finite(v) == IsNum(v.X) /\ IsNum(v.Y) /\ IsNum(v.Z)
HasNaN(v) == IsNaN(v.X) \/ IsNaN(v.Y) \/ IsNaN(v.Z)

\* the call was VectorFromMap on exactly the mapping AsMap produced
RoundTrip ==
    /\ call.op = "VectorFromMap"
    /\ call.m = Box(AsMap(heap, call.recv))

\* r.Equal(v) for the returned value r, stored by the caller in a new object
EqualToRecv(r) == Equal(Append(heap, r), Len(heap) + 1, call.recv)

\* C1 as stated: for every v, VectorFromMap of the mapping AsMap(v) produced
\* returns a vector whose X, Y, Z equal v's, so that it is Equal to v.
C1_Original ==
    RoundTrip =>
        /\ ret.kind = "vec"
        /\ FEq(ret.vec.X, RecvV.X) /\ FEq(ret.vec.Y, RecvV.Y)
        /\ FEq(ret.vec.Z, RecvV.Z)
        /\ EqualToRecv(ret.vec)

\* C1 amended: for every v, VectorFromMap of the mapping AsMap(v) produced
\* returns a vector holding the same three values as v; when all three
\* components of v are finite the components compare equal and the result is
\* Equal to v.
C1_RoundTrip ==
    RoundTrip =>
        /\ ret.kind = "vec"
        /\ ret.vec = RecvV
        /\ Finite(RecvV) =>
              /\ FEq(ret.vec.X, RecvV.X) /\ FEq(ret.vec.Y, RecvV.Y)
              /\ FEq(ret.vec.Z, RecvV.Z)
              /\ EqualToRecv(ret.vec)

C1_Witness ==
    /\ RoundTrip
    /\ call.recv = AddrA
    /\ Finite(RecvV)
    /\ RecvV.X # RecvV.Y /\ RecvV.Y # RecvV.Z /\ RecvV.X # RecvV.Z
    /\ ret.kind = "vec"
    /\ EqualToRecv(ret.vec)

\* the dynamic types that hold a number
Numeric == {"float64", "int"}
Malformed(m) ==
    \E key \in Keys : key \notin DOMAIN m \/ m[key].t \notin Numeric

\* C2: VectorFromMap panics (returns neither a Vector3 nor an error) whenever
\* the mapping lacks one of "x", "y", "z" or holds a non-numeric value under
\* one of them; it returns a Vector3 only when all three are present and
\* numeric.
C2_MalformedPanics ==
    call.op = "VectorFromMap" =>
        /\ ret.kind \in {"vec", "panic"}
        /\ Malformed(call.m) => ret.kind = "panic"
        /\ ret.kind = "vec" =>
              \A key \in Keys : key \in DOMAIN call.m /\ call.m[key].t \in Numeric

C2_Witness ==
    /\ call.op = "VectorFromMap"
    /\ "y" \notin DOMAIN call.m
    /\ "x" \in DOMAIN call.m /\ "z" \in DOMAIN call.m
    /\ ret.kind = "panic"

C2_WitnessNonNumeric ==
    /\ call.op = "VectorFromMap"
    /\ DOMAIN call.m = Keys
    /\ call.m["z"].t = "string"
    /\ ret.kind = "panic"

\* b.Cross(a).Multiply(-1), computed after the call a.Cross(b)
CrossBack ==
    LET back == Cross(heap, call.arg, call.recv)
        neg == Multiply(back.h, back.p, Whole(-1))
    IN  neg.h[neg.p]

\* the worked example: a = (1,2,3), b = (4,5,6)
ExampleHeap == <<Vec(Whole(1), Whole(2), Whole(3)), Vec(Whole(4), Whole(5), Whole(6))>>
CrossExample ==
    LET ab == Cross(ExampleHeap, 1, 2)
        ba == Cross(ExampleHeap, 2, 1)
    IN  /\ ab.h[ab.p] = Vec(Whole(-3), Whole(6), Whole(-3))
        /\ ba.h[ba.p] = Vec(Whole(3), Whole(-6), Whole(3))

\* C3 as stated: for all a and b, every component of a.Cross(b) equals the
\* component of b.Cross(a) multiplied by -1.
C3_Original ==
    call.op = "Cross" =>
        /\ FEq(Res.X, CrossBack.X)
        /\ FEq(Res.Y, CrossBack.Y)
        /\ FEq(Res.Z, CrossBack.Z)

\* C3 amended: a.Cross(b) is (y1*z2 - z1*y2, z1*x2 - x1*z2, x1*y2 - y1*x2),
\* and every component of it that is not NaN equals the component of
\* b.Cross(a) multiplied by -1; a NaN component is NaN in both.  For
\* a = (1,2,3), b = (4,5,6) the products are (-3,6,-3) and (3,-6,3).
C3_CrossAntiCommutes ==
    /\ CrossExample
    /\ call.op = "Cross" =>
          /\ Res.X = FSub(FMul(RecvV.Y, ArgV.Z), FMul(RecvV.Z, ArgV.Y))
          /\ Res.Y = FSub(FMul(RecvV.Z, ArgV.X), FMul(RecvV.X, ArgV.Z))
          /\ Res.Z = FSub(FMul(RecvV.X, ArgV.Y), FMul(RecvV.Y, ArgV.X))
          /\ IF IsNaN(Res.X) THEN IsNaN(CrossBack.X) ELSE FEq(Res.X, CrossBack.X)
          /\ IF IsNaN(Res.Y) THEN IsNaN(CrossBack.Y) ELSE FEq(Res.Y, CrossBack.Y)
          /\ IF IsNaN(Res.Z) THEN IsNaN(CrossBack.Z) ELSE FEq(Res.Z, CrossBack.Z)

C3_Witness ==
    /\ call.op = "Cross"
    /\ call.recv = AddrA /\ call.arg = AddrB
    /\ Finite(Res)
    /\ Res.X.n > 0 /\ Res.Y.n < 0
    /\ FEq(Res.X, CrossBack.X) /\ FEq(Res.Y, CrossBack.Y)

\* |x - y| < 0.00001, in exact arithmetic on finite values; a NaN or infinite
\* operand has no difference below the threshold
Within(x, y) == IsNum(x) /\ IsNum(y) /\ IAbs(x.n - y.n) < Scale \div 100000

\* C4: Equal(a, b) is true iff on each of the three axes the absolute
\* difference of a and b is strictly less than 0.00001; a difference of
\* 0.000005 on one axis gives true, one of 0.00002 gives false.
C4_EqualIffWithin ==
    /\ Equal(<<Vec(F(0), F(0), F(0)), Vec(F(0), F(0), F(Scale \div 200000))>>, 1, 2)
    /\ ~Equal(<<Vec(F(0), F(0), F(0)), Vec(F(0), F(0), F(Scale \div 50000))>>, 1, 2)
    /\ call.op = "Equal" =>
          ret.b = (/\ Within(RecvV.X, ArgV.X)
                   /\ Within(RecvV.Y, ArgV.Y)
                   /\ Within(RecvV.Z, ArgV.Z))

\* Equal answers true for two different vectors
C4_Witness ==
    /\ call.op = "Equal" /\ ret.b
    /\ RecvV.Z # ArgV.Z

\* Equal answers false for a difference of exactly the threshold on one axis
C4_WitnessBoundary ==
    /\ call.op = "Equal" /\ ~ret.b
    /\ Within(RecvV.X, ArgV.X) /\ Within(RecvV.Y, ArgV.Y)
    /\ IsNum(RecvV.Z) /\ IsNum(ArgV.Z)
    /\ IAbs(RecvV.Z.n - ArgV.Z.n) = threshold.n

\* C5: for all a and b exactly one of a.Equal(b) and a.Differ(b) is true.
C5_EqualXorDiffer ==
    /\ call.op = "Differ" => (ret.b # Equal(heap, call.recv, call.arg))
    /\ call.op = "Equal" => (ret.b # Differ(heap, call.recv, call.arg))

C5_Witness ==
    /\ call.op = "Differ" /\ ~ret.b
    /\ RecvV # ArgV

C5_WitnessDiffer ==
    /\ call.op = "Differ" /\ ret.b
    /\ Finite(RecvV) /\ Finite(ArgV)
    /\ IAbs(RecvV.Y.n - ArgV.Y.n) = threshold.n

C7_ReflectIsReflection ==
    (call.op = "Reflect" /\ call.arg \in Units) =>
        LET d == FMul(F(2 * Scale), Dot(heap, call.recv, call.arg))
        IN  /\ Res.X = FSub(RecvV.X, FMul(d, ArgV.X))
            /\ Res.Y = FSub(RecvV.Y, FMul(d, ArgV.Y))
            /\ Res.Z = FSub(RecvV.Z, FMul(d, ArgV.Z))

\* pointA.Subtract(pointB), computed after the call Subtract(pointA, pointB)
MethodForm ==
    LET r == SubtractMethod(heap, call.recv, call.arg)
    IN  r.h[r.p]

DistanceBack == Distance(heap, call.arg, call.recv).f

\* C9 as stated: for all points p1 and p2, Distance(p1, p2) equals
\* Distance(p2, p1).
C9_Original ==
    call.op = "Distance" => FEq(ret.f, DistanceBack)

\* C9 amended: Distance(p1, p2) is the Abs of Subtract(p1, p2); for all p1
\* and p2 for which Distance(p1, p2) is not NaN it equals Distance(p2, p1),
\* and when it is NaN so is Distance(p2, p1).
C9_DistanceSymmetric ==
    call.op = "Distance" =>
        /\ LET dx == FSub(RecvV.X, ArgV.X)
               dy == FSub(RecvV.Y, ArgV.Y)
               dz == FSub(RecvV.Z, ArgV.Z)
           IN  ret.f = FSqrt(FAdd(FAdd(FMul(dx, dx), FMul(dy, dy)), FMul(dz, dz)))
        /\ IF IsNaN(ret.f) THEN IsNaN(DistanceBack) ELSE FEq(ret.f, DistanceBack)

C9_Witness ==
    /\ call.op = "Distance"
    /\ call.recv = AddrA /\ call.arg = AddrB
    /\ IsNum(ret.f) /\ ret.f.n > Scale
    /\ FEq(ret.f, DistanceBack)

\* C10: no operation changes its operands: across every call the objects the
\* caller holds (UnitX, UnitY, UnitZ, a, b) keep their values, a returned
\* pointer names a new object that is none of them, and UnitX, UnitY, UnitZ
\* are always (1,0,0), (0,1,0), (0,0,1).
C10_Frame ==
    /\ [](/\ heap[AddrUnitX] = Vec(Whole(1), Whole(0), Whole(0))
          /\ heap[AddrUnitY] = Vec(Whole(0), Whole(1), Whole(0))
          /\ heap[AddrUnitZ] = Vec(Whole(0), Whole(0), Whole(1)))
    /\ [][/\ \A r \in Roots : heap'[r] = heap[r]
          /\ ret'.kind = "ptr" =>
                /\ ret'.p \notin Roots
                /\ ret'.p \notin DOMAIN Live
                /\ ret'.p \in DOMAIN heap'
                /\ ret'.p \notin {call'.recv, call'.arg}]_vars

\* a unit vector was both receiver and argument of a call that returned a
\* new vector
C10_Witness ==
    /\ call.op = "Add"
    /\ call.recv = AddrUnitX /\ call.arg = AddrUnitX
    /\ ret.kind = "ptr" /\ ret.p = NRoots + 1
    /\ Res = Vec(Whole(2), Whole(0), Whole(0))
    /\ heap[AddrUnitX] = UnitX
====
